---- MODULE Spec2Model ----
(***************************************************************************)
(* gazelle-origin: the batch orchestrator (gazelleorigin/__main__.py) and   *)
(* the tracker client's error classification (gazelleorigin/core.py).       *)
(*                                                                         *)
(* Python strings are sequences of one-character strings, so that the      *)
(* regular expressions, os.path helpers and the status round trip through  *)
(* the error message are computed character by character.  The alphabet    *)
(* holds no newline and no non-ASCII digit.                                 *)
(***************************************************************************)
EXTENDS Integers, Sequences, FiniteSets, TLC

VARIABLES args, has_bencoder, left, todo, fetched, pc, exitcode, cur, requests, sink, hooks

vars == <<args, has_bencoder, left, todo, fetched, pc, exitcode, cur, requests, sink, hooks>>

(* ------------------------------ bounds -------------------------------- *)

\* number of positional `torrent` arguments on the command line (nargs='+')
MaxInputs == 2

\* lines the operator may type at one prompt before a valid choice
MaxTyped == 1

(* --------------------------- string constants -------------------------- *)

HashLen == 40

H_UP == <<"4","5","6","2","B","9","F","4","F","3","A","7","5","5","9","B","B","D","4","D","5","A","C","C","4","7","7","C","3","9","D","2","B","6","F","7","7","7","B","4">>

H_LO == <<"4","5","6","2","b","9","f","4","f","3","a","7","5","5","9","b","b","d","4","d","5","a","c","c","4","7","7","c","3","9","d","2","b","6","f","7","7","7","b","4">>

D40 == <<"1","2","3","4","5","6","7","8","9","0","1","2","3","4","5","6","7","8","9","0","1","2","3","4","5","6","7","8","9","0","1","2","3","4","5","6","7","8","9","0">>

ID_A == <<"1","2","2","5","4","4","1">>

URL_A == <<"h","t","t","p","s",":","/","/","r","e","d","a","c","t","e","d",".","c","h","/","t","o","r","r","e","n","t","s",".","p","h","p","?","i","d","=","8","7","5","8","5","4","&","t","o","r","r","e","n","t","i","d","=","1","8","8","8","8","0","8","#","t","o","r","r","e","n","t","1","8","8","8","8","0","8">>

JUNK == <<"j","u","n","k">>

DIR_D == <<"d">>

A_TORRENT == <<"a",".","t","o","r","r","e","n","t">>

SUB == <<"s","u","b">>

TORRENTID == <<"t","o","r","r","e","n","t","i","d","=">>

STATUS_MARK == <<"(","s","t","a","t","u","s"," ">>

REQUEST_MSG == <<"C","o","u","l","d"," ","n","o","t"," ","r","e","t","r","i","e","v","e"," ","o","r","i","g","i","n"," ","d","a","t","a","."," ","T","r","y"," ","a","g","a","i","n"," ","l","a","t","e","r","."," ","(","s","t","a","t","u","s"," ">>

AUTH_MSG == <<"A","u","t","h","e","n","t","i","c","a","t","i","o","n"," ","e","r","r","o","r",":"," ">>

JSON_MSG == <<"C","o","u","l","d"," ","n","o","t"," ","r","e","t","r","i","e","v","e"," ","o","r","i","g","i","n"," ","d","a","t","a","."," ","C","h","e","c","k"," ","t","h","e"," ","t","o","r","r","e","n","t"," ","I","D","/","h","a","s","h"," ","o","r"," ","t","r","y"," ","a","g","a","i","n"," ","l","a","t","e","r",".">>

MUSIC_MSG == <<"N","o","t"," ","a"," ","m","u","s","i","c"," ","t","o","r","r","e","n","t">>

DOT_TORRENT == <<".","t","o","r","r","e","n","t">>

Digits == {"0","1","2","3","4","5","6","7","8","9"}

HexChars == Digits \cup {"a","b","c","d","e","f","A","B","C","D","E","F"}

(* ----------------------------- str helpers ----------------------------- *)

Max(S) == CHOOSE x \in S : \A y \in S : y <= x

Min(S) == CHOOSE x \in S : \A y \in S : x <= y

\* pat occurs in s at position i
MatchAt(s, pat, i) ==
    /\ i >= 1
    /\ i + Len(pat) - 1 <= Len(s)
    /\ \A k \in 1..Len(pat) : s[i + k - 1] = pat[k]

\* str.endswith
EndsWith(s, suffix) == MatchAt(s, suffix, Len(s) - Len(suffix) + 1)

\* os.path.join(a, b) for a relative b and an a that does not end in a separator
PathJoin(a, b) == a \o <<"/">> \o b

\* os.path.split(p)[-1]: what follows the last separator
Basename(p) ==
    LET seps == {i \in 1..Len(p) : p[i] = "/"}
    IN  IF seps = {} THEN p ELSE SubSeq(p, Max(seps) + 1, Len(p))

\* s.split('.')[0]: what precedes the first dot
BeforeDot(s) ==
    LET dots == {i \in 1..Len(s) : s[i] = "."}
    IN  IF dots = {} THEN s ELSE SubSeq(s, 1, Min(dots) - 1)

DigitValue(c) ==
    CASE c = "0" -> 0 [] c = "1" -> 1 [] c = "2" -> 2 [] c = "3" -> 3 [] c = "4" -> 4
      [] c = "5" -> 5 [] c = "6" -> 6 [] c = "7" -> 7 [] c = "8" -> 8 [] c = "9" -> 9

DigitChar(d) ==
    CASE d = 0 -> "0" [] d = 1 -> "1" [] d = 2 -> "2" [] d = 3 -> "3" [] d = 4 -> "4"
      [] d = 5 -> "5" [] d = 6 -> "6" [] d = 7 -> "7" [] d = 8 -> "8" [] d = 9 -> "9"

\* int(s) of a non-empty string of decimal digits
RECURSIVE ToInt(_)
ToInt(s) ==
    IF Len(s) = 1 THEN DigitValue(s[1])
    ELSE 10 * ToInt(SubSeq(s, 1, Len(s) - 1)) + DigitValue(s[Len(s)])

\* '{0}'.format(n) of a natural number
RECURSIVE FormatInt(_)
FormatInt(n) ==
    IF n < 10 THEN <<DigitChar(n)>>
    ELSE FormatInt(n \div 10) \o <<DigitChar(n % 10)>>

(* ------------------------------ filesystem ----------------------------- *)

\* The directory tree the run sees from its working directory: d/ holds the
\* directories sub/ and 4562...B4/ (named like an info hash, and empty), sub/
\* holds a.torrent; and a second empty directory 4562...B4/ lies next to d/.
FS ==
    (DIR_D :> [kind |-> "dir", entries |-> {SUB, H_UP}])
    @@ (H_UP :> [kind |-> "dir", entries |-> {}])
    @@ (PathJoin(DIR_D, SUB) :> [kind |-> "dir", entries |-> {A_TORRENT}])
    @@ (PathJoin(DIR_D, H_UP) :> [kind |-> "dir", entries |-> {}])
    @@ (PathJoin(PathJoin(DIR_D, SUB), A_TORRENT) :> [kind |-> "file", entries |-> {}])

PathExists(p) == p \in DOMAIN FS

IsDir(p) == PathExists(p) /\ FS[p].kind = "dir"

IsFile(p) == PathExists(p) /\ FS[p].kind = "file"

\* os.listdir returns the entries in arbitrary order
ListDirOrders(p) ==
    LET S == FS[p].entries
    IN  {f \in [1..Cardinality(S) -> S] : \A i, j \in 1..Cardinality(S) : f[i] = f[j] => i = j}

\* what bencoder.decode / sha1(...).hexdigest() can make of a torrent file's bytes
TorrentContents == {[ok |-> TRUE, info_hash |-> H_LO], [ok |-> FALSE, info_hash |-> <<>>]}

(* ------------------------------ EXIT_CODES ----------------------------- *)

\* mutant: 'request-json' shares the code of 'request'
EXIT_CODES_Shared ==
    [k \in {"hash", "music", "unauthorized", "request", "request-json",
            "api-key", "tracker", "input-error"} |->
        CASE k = "hash" -> 3
          [] k = "music" -> 4
          [] k = "unauthorized" -> 5
          [] k = "request" -> 6
          [] k = "request-json" -> 6
          [] k = "api-key" -> 8
          [] k = "tracker" -> 9
          [] k = "input-error" -> 10]

EXIT_CODES ==
    [k \in {"hash", "music", "unauthorized", "request", "request-json",
            "api-key", "tracker", "input-error"} |->
        CASE k = "hash" -> 3
          [] k = "music" -> 4
          [] k = "unauthorized" -> 5
          [] k = "request" -> 6
          [] k = "request-json" -> 7
          [] k = "api-key" -> 8
          [] k = "tracker" -> 9
          [] k = "input-error" -> 10]

(* -------------------------- identifier resolver ------------------------ *)

\* mutant: the pattern lacks its closing anchor, r'^[\da-fA-F]{40}'
IsInfoHash_Unanchored(s) == Len(s) >= HashLen /\ \A i \in 1..HashLen : s[i] \in HexChars

\* re.match(r'^[\da-fA-F]{40}$', s)
IsInfoHash(s) == Len(s) = HashLen /\ \A i \in 1..Len(s) : s[i] \in HexChars

\* re.match(r'^\d+$', s)
IsLiteralId(s) == Len(s) >= 1 /\ \A i \in 1..Len(s) : s[i] \in Digits

\* positions where 'torrentid=' followed by a digit starts
UrlStarts(s) ==
    {i \in 1..Len(s) : /\ MatchAt(s, TORRENTID, i)
                       /\ i + Len(TORRENTID) <= Len(s)
                       /\ s[i + Len(TORRENTID)] \in Digits}

\* group 1 of re.match(r'.*torrentid=(\d+).*', s): the leading .* is greedy, so
\* the last occurrence is taken, and \d+ takes the whole run of digits
UrlGroup(s) ==
    LET first == Max(UrlStarts(s)) + Len(TORRENTID)
        ends  == {j \in first..Len(s) : \A k \in first..j : s[k] \in Digits}
    IN  SubSeq(s, first, Max(ends))

Parsed(tag, val) == [tag |-> tag, val |-> val]

\* mutant: a directory is walked whatever the walk flag says
ParseTorrentInput_AlwaysWalks(torrent, walk, content) ==
    IF IsInfoHash(torrent) THEN Parsed("hash", torrent)
    ELSE IF IsLiteralId(torrent) THEN Parsed("id", torrent)
    ELSE IF PathExists(torrent) /\ IsDir(torrent) THEN Parsed("walked", <<>>)
    ELSE IF PathExists(torrent) /\ IsInfoHash(BeforeDot(Basename(torrent)))
         THEN Parsed("hash", BeforeDot(Basename(torrent)))
    ELSE IF /\ PathExists(torrent)
            /\ ~args.no_hash
            /\ IsFile(torrent)
            /\ EndsWith(Basename(torrent), DOT_TORRENT)
         THEN IF has_bencoder
              THEN IF content.ok THEN Parsed("hash", content.info_hash)
                                 ELSE Parsed("none", <<>>)
              ELSE Parsed("nobencoder", <<>>)
    ELSE IF UrlStarts(torrent) = {} THEN Parsed("none", <<>>)
    ELSE Parsed("id", UrlGroup(torrent))

\* parse_torrent_input up to the point where it needs the policy: "nobencoder"
\* stands for the branch that prints and calls handle_invalid (lines 194-199)
ParseTorrentInput(torrent, walk, content) ==
    IF IsInfoHash(torrent) THEN Parsed("hash", torrent)
    ELSE IF IsLiteralId(torrent) THEN Parsed("id", torrent)
    ELSE IF PathExists(torrent) /\ walk /\ IsDir(torrent) THEN Parsed("walked", <<>>)
    ELSE IF PathExists(torrent) /\ IsInfoHash(BeforeDot(Basename(torrent)))
         THEN Parsed("hash", BeforeDot(Basename(torrent)))
    ELSE IF /\ PathExists(torrent)
            /\ ~args.no_hash
            /\ IsFile(torrent)
            /\ EndsWith(Basename(torrent), DOT_TORRENT)
         THEN IF has_bencoder
              THEN IF content.ok THEN Parsed("hash", content.info_hash)
                                 ELSE Parsed("none", <<>>)
              ELSE Parsed("nobencoder", <<>>)
    ELSE IF UrlStarts(torrent) = {} THEN Parsed("none", <<>>)
    ELSE Parsed("id", UrlGroup(torrent))

(* ------------------------------ policy --------------------------------- *)

options_ask == {"c", "s"}

\* ask_invalid: prompt until the operator types one of options_ask
RECURSIVE AskInvalid(_)
AskInvalid(typed) ==
    IF Head(typed) \in options_ask
    THEN IF Head(typed) = "c" THEN "continue" ELSE "stop"
    ELSE AskInvalid(Tail(typed))

\* mutant: the final branch of handle_invalid returns 'continue'
HandleInvalid_ElseContinue(typed) ==
    IF args.ignore_invalid = "continue" THEN "continue"
    ELSE IF args.ignore_invalid = "ask" THEN AskInvalid(typed)
    ELSE "continue"

\* handle_invalid
HandleInvalid(typed) ==
    IF args.ignore_invalid = "continue" THEN "continue"
    ELSE IF args.ignore_invalid = "ask" THEN AskInvalid(typed)
    ELSE "stop"

\* what the operator can type at one prompt loop: junk lines, then a choice
TypedLines ==
    {t \in UNION {[1..n -> {"c", "s", "x"}] : n \in 1..MaxTyped} :
        /\ t[Len(t)] \in options_ask
        /\ \A i \in 1..(Len(t) - 1) : t[i] \notin options_ask}

\* the operator is read only in ask mode
Typings == IF args.ignore_invalid = "ask" THEN TypedLines ELSE {<<>>}

\* console trace of one handle_invalid call: the call, then one prompt per
\* line read from the operator
PolicyTrace(typed) == <<"policy">> \o [i \in 1..Len(typed) |-> "prompt"]

\* mutant: the policy is asked before the diagnostic is printed
InvalidTrace_PolicyFirst(typed) == PolicyTrace(typed) \o <<"invalid">>

\* lines 216-217: the diagnostic for an invalid input, then the policy
InvalidTrace(typed) == <<"invalid">> \o PolicyTrace(typed)

\* lines 194-196: the diagnostic for the missing bencoder module, then the policy
NoBencoderTrace(typed) == <<"nobencoder">> \o PolicyTrace(typed)

(* --------------------------- tracker client ---------------------------- *)

StatusCodes == {200, 401, 403, 404, 500, 502}

Responses ==
    {[status_code |-> s, status |-> "failure", categoryName |-> "none"] :
        s \in StatusCodes \ {200}}
    \cup {[status_code |-> 200, status |-> st, categoryName |-> c] :
            st \in {"success", "failure"}, c \in {"Music", "Applications"}}

GazelleAPIError(code, message) == [ok |-> FALSE, code |-> code, message |-> message]

\* GazelleAPI.request
Request(r) ==
    IF r.status_code = 401 \/ r.status_code = 403
    THEN GazelleAPIError("unauthorized", AUTH_MSG \o <<"e", "r", "r">>)
    ELSE IF r.status_code # 200
    THEN GazelleAPIError("request", REQUEST_MSG \o FormatInt(r.status_code) \o <<")">>)
    ELSE IF r.status # "success"
    THEN GazelleAPIError("request-json", JSON_MSG)
    ELSE [ok |-> TRUE, code |-> "", message |-> <<>>]

\* mutant: the category of the release is not checked
GetTorrentInfo_AnyCategory(r) == Request(r)

\* GazelleAPI.get_torrent_info, up to the category check; the rendering of the
\* record is not modelled
GetTorrentInfo(r) ==
    LET info == Request(r)
    IN  IF ~info.ok THEN info
        ELSE IF r.categoryName # "Music"
        THEN GazelleAPIError("music", MUSIC_MSG)
        ELSE info

\* s.split(sep)[-1]
AfterLast(s, sep) ==
    LET occ == {i \in 1..Len(s) : MatchAt(s, sep, i)}
    IN  IF occ = {} THEN s ELSE SubSeq(s, Max(occ) + Len(sep), Len(s))

\* int(str(e).split('(status ')[-1][:-1])
StatusOf(message) ==
    LET tail == AfterLast(message, STATUS_MARK)
    IN  ToInt(SubSeq(tail, 1, Len(tail) - 1))

\* lines 235-248: the policy is asked as soon as the error is caught; what is
\* printed afterwards depends on `skip`
ApiErrorTrace(typed, skip) ==
    PolicyTrace(typed) \o <<IF skip THEN "skipping" ELSE "error">>

\* mutant: every Request failure is skipped, whatever its status
Skip_AnyRequest(verdict, e) ==
    IF verdict = "stop" THEN FALSE
    ELSE e.code = "request" \/ e.code = "request-json" \/ e.code = "music"

\* mutant: a non-music torrent is not skipped
Skip_NotMusic(verdict, e) ==
    IF verdict = "stop" THEN FALSE
    ELSE IF e.code = "request" THEN StatusOf(e.message) < 500
    ELSE e.code = "request-json"

\* the `skip` flag of handle_input_torrent's except branch
Skip(verdict, e) ==
    IF verdict = "stop" THEN FALSE
    ELSE IF e.code = "request" THEN StatusOf(e.message) < 500
    ELSE e.code = "request-json" \/ e.code = "music"

(* ---------------------------- the orchestrator ------------------------- *)

\* the positional arguments a run can be given
RawInputs == {H_UP, H_LO, ID_A, DIR_D, JUNK}

NoError == [ok |-> TRUE, code |-> "", message |-> <<>>]

NoResponse == [status_code |-> 0, status |-> "", categoryName |-> ""]

NoContent == [ok |-> FALSE, info_hash |-> <<>>]

\* Locals and console trace of the latest call: the input and its walk flag,
\* what it parsed to, the tracker's response and the error raised from it, the
\* failures met with the verdict handle_invalid gave on each, and the trace.
NoCall ==
    [torrent |-> <<>>, walk |-> TRUE, parsed |-> Parsed("", <<>>),
     response |-> NoResponse, error |-> NoError,
     failures |-> <<>>, verdicts |-> <<>>, events |-> <<>>]

Call(it, parsed, response, error, failures, verdicts, events) ==
    [torrent |-> it.torrent, walk |-> it.walk, parsed |-> parsed,
     response |-> response, error |-> error,
     failures |-> failures, verdicts |-> verdicts, events |-> <<"handling">> \o events]

\* The command line as argparse returns it, before GazelleOrigin.__init__
\* validates it.  `left` is the number of args.torrent entries run() has not
\* reached yet; what each one is is drawn when the loop reaches it.  `todo`
\* holds the entries of the directories being walked that are still to be
\* handled, innermost first.
Init ==
    /\ args \in [ignore_invalid : {"stop", "ask", "continue"},
                 deduplicate : BOOLEAN,
                 recursive : BOOLEAN,
                 no_hash : BOOLEAN,
                 post : {<<>>, <<"post.sh">>}]
    /\ has_bencoder \in BOOLEAN
    /\ left \in 1..MaxInputs
    /\ todo = <<>>
    /\ fetched = {}
    /\ pc = "init"
    /\ exitcode = <<>>
    /\ cur = NoCall
    /\ requests = <<>>
    /\ sink = <<>>
    /\ hooks = <<>>

\* sys.exit(code): nothing that is pending is handled
SysExit(code) ==
    /\ pc' = "exited"
    /\ exitcode' = <<code>>
    /\ UNCHANGED <<left, todo>>

\* the code each error kind exits with, from the sys.exit call that handles it
ExitCodeOf(kind) ==
    CASE kind = "invalid" -> EXIT_CODES["hash"]
      [] kind = "unavailable" -> EXIT_CODES["input-error"]
      [] OTHER -> EXIT_CODES[kind]

\* what the constructor finds: the --env file, the --post scripts, the tracker
\* name and the API key
Environments ==
    [env_file : {"none", "found", "missing"},
     post_found : BOOLEAN,
     tracker : {"", "red", "nosuch"},
     api_key : BOOLEAN]

\* the checks of GazelleOrigin.__init__, in order: the error kind of the first
\* that fails, "" when all pass
Startup(env) ==
    IF env.env_file = "missing" THEN "input-error"
    ELSE IF args.post # <<>> /\ ~env.post_found THEN "input-error"
    ELSE IF env.tracker = "" THEN "tracker"
    ELSE IF env.tracker # "red" THEN "tracker"
    ELSE IF ~env.api_key THEN "api-key"
    ELSE ""

\* GazelleOrigin.__init__
Construct ==
    /\ pc = "init"
    /\ \E env \in Environments :
         IF Startup(env) = ""
         THEN /\ pc' = "running"
              /\ UNCHANGED <<exitcode, left, todo, cur>>
         ELSE /\ cur' = [NoCall EXCEPT !.failures = <<Startup(env)>>,
                                       !.events = <<"startup">>]
              /\ SysExit(ExitCodeOf(Startup(env)))
    /\ UNCHANGED <<args, has_bencoder, fetched, requests, sink, hooks>>

\* The next handle_input_torrent call: the next entry of the innermost walk
\* (walk=self.args.recursive), or else run()'s next argument (walk=True).
Calls ==
    IF todo # <<>>
    THEN {[it |-> Head(todo), todo |-> Tail(todo), left |-> left]}
    ELSE IF left > 0
    THEN {[it |-> [torrent |-> t, walk |-> TRUE], todo |-> <<>>, left |-> left - 1] :
            t \in RawInputs}
    ELSE {}

\* handle_input_torrent returns: the caller's loop goes on to its next input
Return(c) ==
    /\ pc' = pc
    /\ exitcode' = exitcode
    /\ todo' = c.todo
    /\ left' = c.left

\* the deduplication test of handle_input_torrent
IsDuplicate(parsed) == args.deduplicate /\ parsed.val \in fetched

\* mutant: the key is never recorded
Record_Forgets(parsed) == fetched

\* what deduplication records before the lookup is dispatched
Record(parsed) == IF args.deduplicate THEN fetched \cup {parsed.val} ELSE fetched

\* handle_input_torrent on a directory: parse_torrent_input handles every
\* entry in turn (depth first, before the caller's next input) and returns 'walked'
Walked(c) ==
    /\ pc = "running"
    /\ LET parsed == ParseTorrentInput(c.it.torrent, c.it.walk, NoContent)
       IN  /\ parsed.tag = "walked"
           /\ \E order \in ListDirOrders(c.it.torrent) :
                todo' = [i \in 1..Len(order) |->
                            [torrent |-> PathJoin(c.it.torrent, order[i]),
                             walk |-> args.recursive]] \o c.todo
           /\ left' = c.left
           /\ cur' = Call(c.it, parsed, NoResponse, NoError, <<>>, <<>>, <<>>)
    /\ UNCHANGED <<args, has_bencoder, fetched, pc, exitcode, requests, sink, hooks>>

\* handle_input_torrent on an input that parses to None
InvalidInput(c) ==
    /\ pc = "running"
    /\ \E content \in TorrentContents :
         LET parsed == ParseTorrentInput(c.it.torrent, c.it.walk, content)
         IN  /\ parsed.tag = "none"
             /\ \E typed \in Typings :
                  LET answer == HandleInvalid(typed)
                  IN  /\ cur' = Call(c.it, parsed, NoResponse, NoError,
                                     <<"invalid">>, <<answer>>, InvalidTrace(typed))
                      /\ IF answer # "stop" THEN Return(c)
                                             ELSE SysExit(ExitCodeOf("invalid"))
    /\ UNCHANGED <<args, has_bencoder, fetched, requests, sink, hooks>>

\* handle_input_torrent on a torrent file when bencoder cannot be imported:
\* parse_torrent_input asks the policy, and unless told to stop returns None,
\* which handle_input_torrent then treats as an invalid input
HashUnavailable(c) ==
    /\ pc = "running"
    /\ \E typed1 \in Typings :
         LET parsed == ParseTorrentInput(c.it.torrent, c.it.walk, NoContent)
             answer1 == HandleInvalid(typed1)
         IN  /\ parsed.tag = "nobencoder"
             /\ \/ /\ answer1 = "stop"
                   /\ cur' = Call(c.it, parsed, NoResponse, NoError,
                                  <<"unavailable">>, <<answer1>>, NoBencoderTrace(typed1))
                   /\ SysExit(ExitCodeOf("unavailable"))
                \/ /\ answer1 # "stop"
                   /\ \E typed2 \in Typings :
                        LET answer2 == HandleInvalid(typed2)
                        IN  /\ cur' = Call(c.it, Parsed("none", <<>>), NoResponse, NoError,
                                           <<"unavailable", "invalid">>,
                                           <<answer1, answer2>>,
                                           NoBencoderTrace(typed1) \o InvalidTrace(typed2))
                            /\ IF answer2 # "stop" THEN Return(c)
                                                    ELSE SysExit(ExitCodeOf("invalid"))
    /\ UNCHANGED <<args, has_bencoder, fetched, requests, sink, hooks>>

\* handle_input_torrent on a key that deduplication has already seen
Duplicate(c) ==
    /\ pc = "running"
    /\ \E content \in TorrentContents :
         LET parsed == ParseTorrentInput(c.it.torrent, c.it.walk, content)
         IN  /\ parsed.tag \in {"hash", "id"}
             /\ IsDuplicate(parsed)
             /\ cur' = Call(c.it, parsed, NoResponse, NoError, <<>>, <<>>, <<>>)
             /\ Return(c)
    /\ UNCHANGED <<args, has_bencoder, fetched, requests, sink, hooks>>

\* handle_input_torrent when the lookup succeeds: write the record, run the hooks
Fetched(c) ==
    /\ pc = "running"
    /\ \E content \in TorrentContents :
         LET parsed == ParseTorrentInput(c.it.torrent, c.it.walk, content)
         IN  /\ parsed.tag \in {"hash", "id"}
             /\ ~IsDuplicate(parsed)
             /\ fetched' = Record(parsed)
             /\ requests' = Append(requests, parsed)
             /\ \E r \in Responses :
                  /\ GetTorrentInfo(r).ok
                  /\ cur' = Call(c.it, parsed, r, NoError, <<>>, <<>>,
                                 <<"write">> \o [i \in 1..Len(args.post) |-> "hook"])
             /\ sink' = Append(sink, parsed)
             /\ hooks' = hooks \o [i \in 1..Len(args.post) |->
                                      [script |-> args.post[i], record |-> parsed]]
             /\ Return(c)
    /\ UNCHANGED <<args, has_bencoder>>

\* handle_input_torrent when the lookup raises GazelleAPIError
FetchFailed(c) ==
    /\ pc = "running"
    /\ \E content \in TorrentContents :
         LET parsed == ParseTorrentInput(c.it.torrent, c.it.walk, content)
         IN  /\ parsed.tag \in {"hash", "id"}
             /\ ~IsDuplicate(parsed)
             /\ fetched' = Record(parsed)
             /\ requests' = Append(requests, parsed)
             /\ \E r \in Responses :
                  LET e == GetTorrentInfo(r)
                  IN  /\ ~e.ok
                      /\ \E typed \in Typings :
                           LET answer == HandleInvalid(typed)
                               skip == Skip(answer, e)
                           IN  /\ cur' = Call(c.it, parsed, r, e, <<e.code>>, <<answer>>,
                                              ApiErrorTrace(typed, skip))
                               /\ IF skip THEN Return(c)
                                          ELSE SysExit(ExitCodeOf(e.code))
    /\ UNCHANGED <<args, has_bencoder, sink, hooks>>

\* run() has handled every input and main returns
RunReturns ==
    /\ pc = "running" /\ todo = <<>> /\ left = 0
    /\ pc' = "done"
    /\ exitcode' = <<0>>
    /\ UNCHANGED <<args, has_bencoder, left, todo, fetched, cur, requests, sink, hooks>>

Next ==
    \/ Construct
    \/ \E c \in Calls : Walked(c)
    \/ \E c \in Calls : InvalidInput(c)
    \/ \E c \in Calls : HashUnavailable(c)
    \/ \E c \in Calls : Duplicate(c)
    \/ \E c \in Calls : Fetched(c)
    \/ \E c \in Calls : FetchFailed(c)
    \/ RunReturns

Spec == Init /\ [][Next]_vars

(* ------------------- the resolver called on its own -------------------- *)

\* strings parse_torrent_input is called with directly, as test_parser does
ResolverInputs ==
    {H_UP, H_LO, D40, ID_A, URL_A, JUNK, <<>>, <<"0">>,
     SubSeq(H_UP, 1, HashLen - 1), H_UP \o <<"0">>,
     SubSeq(D40, 1, HashLen - 1), D40 \o <<"0">>,
     SubSeq(H_UP, 1, HashLen - 1) \o <<"g">>,
     TORRENTID \o <<"x">>,
     TORRENTID \o <<"1", "2", "&">> \o TORRENTID \o <<"3", "4", "5", "#", "6">>,
     PathJoin(DIR_D, H_UP), PathJoin(DIR_D, SUB),
     PathJoin(PathJoin(DIR_D, SUB), A_TORRENT)}

\* g.parse_torrent_input(torrent, walk) on an input for which it neither walks
\* a directory nor asks the policy
Resolve ==
    /\ pc = "running" /\ left > 0
    /\ \E t \in ResolverInputs, walk \in BOOLEAN, content \in TorrentContents :
         LET parsed == ParseTorrentInput(t, walk, content)
         IN  /\ parsed.tag \notin {"walked", "nobencoder"}
             /\ cur' = Call([torrent |-> t, walk |-> walk], parsed, NoResponse, NoError,
                            <<>>, <<>>, <<>>)
    /\ left' = left - 1
    /\ UNCHANGED <<args, has_bencoder, todo, fetched, pc, exitcode, requests, sink, hooks>>

NextResolve == Construct \/ Resolve

SpecResolve == Init /\ [][NextResolve]_vars

(* ------------------------------- claims -------------------------------- *)

\* the failure the latest call met last, "" when it met none
LastFailure == IF cur.failures = <<>> THEN "" ELSE cur.failures[Len(cur.failures)]

\* the latest call reached the policy, and every verdict on it was 'continue'
AllContinue ==
    /\ cur.verdicts # <<>>
    /\ \A i \in DOMAIN cur.verdicts : cur.verdicts[i] = "continue"

\* the tracker answered the latest call with a 5xx status
ServerError == cur.response.status_code >= 500

\* C1, as stated: a lookup that fails with a Request error of status >= 500 is
\* skipped in every policy mode and never terminates the run.
C1_ServerErrorIsSkipped == ServerError => pc # "exited"

\* C1, amended: a lookup that fails with a Request error of status >= 500
\* terminates the run with the Request exit code (6) in every policy mode, and
\* the input is never reported as skipped.
C1_ServerErrorTerminates ==
    ServerError =>
        /\ cur.failures = <<"request">>
        /\ pc = "exited"
        /\ exitcode = <<6>>
        /\ cur.events[Len(cur.events)] = "error"

\* a 502 under --ignore-invalid continue ends the run
C1_Witness ==
    /\ cur.response.status_code = 502
    /\ args.ignore_invalid = "continue"
    /\ cur.verdicts = <<"continue">>
    /\ pc = "exited"

\* C2, as stated: a continue verdict never ends the run, for every error kind;
\* the run returns only when no input is left to handle, and then exits with 0.
C2_ContinueNeverEndsRun ==
    /\ AllContinue => pc # "exited"
    /\ (pc = "running" /\ todo = <<>> /\ left = 0) => ENABLED RunReturns
    /\ pc = "done" => exitcode = <<0>> /\ left = 0 /\ todo = <<>>

\* C2, amended: a continue verdict never ends the run for an invalid input, a
\* missing hash capability, a Request failure of status below 500, RequestJson
\* and Music; on Unauthorized and on a Request failure of status >= 500 the run
\* ends with that kind's exit code (5, 6) even on a continue verdict.  The run
\* returns only when no input is left to handle, and then exits with 0.
C2_ContinueSkipsRecoverable ==
    /\ AllContinue =>
         IF LastFailure = "unauthorized" THEN pc = "exited" /\ exitcode = <<5>>
         ELSE IF LastFailure = "request" /\ ServerError
              THEN pc = "exited" /\ exitcode = <<6>>
         ELSE pc # "exited"
    /\ (pc = "running" /\ todo = <<>> /\ left = 0) => ENABLED RunReturns
    /\ pc = "done" => exitcode = <<0>> /\ left = 0 /\ todo = <<>>

\* a non-music torrent was skipped on a continue verdict and the run ended with 0
C2_Witness ==
    /\ AllContinue
    /\ LastFailure = "music"
    /\ pc = "done"
    /\ exitcode = <<0>>

\* C3: under --ignore-invalid stop the first failure that is not a Request
\* failure of status >= 500 terminates the run with the exit code of its kind,
\* and nothing further is handled.
C3_StopTerminates ==
    (args.ignore_invalid = "stop" /\ cur.verdicts # <<>> /\ ~ServerError) =>
        /\ pc = "exited"
        /\ ~ENABLED Next
        /\ exitcode # <<0>>
        /\ exitcode =
             CASE LastFailure = "invalid" -> <<3>>
               [] LastFailure = "unavailable" -> <<10>>
               [] LastFailure = "music" -> <<4>>
               [] LastFailure = "unauthorized" -> <<5>>
               [] LastFailure = "request" -> <<6>>
               [] LastFailure = "request-json" -> <<7>>

\* a 404 under stop ended the run while another argument was still to come
C3_Witness ==
    /\ args.ignore_invalid = "stop"
    /\ cur.response.status_code = 404
    /\ pc = "exited"
    /\ left > 0

\* the keys of the lookups dispatched so far
RequestedKeys == {requests[i].val : i \in DOMAIN requests}

\* the latest call resolved its input to a key
Resolved == cur.parsed.tag \in {"hash", "id"}

\* C4: with deduplication enabled at most one lookup is dispatched per key
\* string, the set holds exactly the keys dispatched (recorded whether or not
\* the lookup succeeded), and an input whose key was seen is dropped without a
\* record; with deduplication disabled the set stays empty and every resolved
\* input is looked up.
C4_Deduplication ==
    /\ args.deduplicate =>
         /\ \A i, j \in DOMAIN requests : requests[i].val = requests[j].val => i = j
         /\ fetched = RequestedKeys
         /\ \A i, j \in DOMAIN sink : sink[i].val = sink[j].val => i = j
         /\ Resolved => cur.parsed.val \in fetched
    /\ ~args.deduplicate =>
         /\ fetched = {}
         /\ Resolved => requests # <<>> /\ requests[Len(requests)] = cur.parsed

\* with deduplication enabled the first lookup of a key failed and was skipped,
\* and the next input, which resolves to the same key, was dropped
C4_Witness ==
    /\ args.deduplicate
    /\ Len(requests) = 1
    /\ sink = <<>>
    /\ cur.parsed = requests[1]
    /\ cur.events = <<"handling">>

\* lower case of a hexadecimal digit
LowerChar(ch) ==
    CASE ch = "A" -> "a" [] ch = "B" -> "b" [] ch = "C" -> "c"
      [] ch = "D" -> "d" [] ch = "E" -> "e" [] ch = "F" -> "f"
      [] OTHER -> ch

Lower(s) == [i \in DOMAIN s |-> LowerChar(s[i])]

\* C5: with deduplication enabled two inputs that are the same hash up to
\* letter case result in one lookup, and the LookupKey keeps the input's case.
C5_HashDedupIgnoresCase ==
    /\ args.deduplicate =>
         \A i, j \in DOMAIN requests :
            (requests[i].tag = "hash" /\ requests[j].tag = "hash"
                /\ Lower(requests[i].val) = Lower(requests[j].val)) => i = j
    /\ (cur.parsed.tag = "hash" /\ IsInfoHash(cur.torrent)) => cur.parsed.val = cur.torrent

\* the error kinds of the taxonomy
ErrorKinds ==
    {"invalid", "unavailable", "music", "unauthorized", "request", "request-json",
     "api-key", "tracker", "input-error"}

\* C6, as stated: every error kind terminates the process with a non-zero code
\* that no other kind exits with.
C6_ExitCodesDistinct ==
    pc = "exited" =>
        /\ exitcode # <<0>>
        /\ LastFailure \in ErrorKinds
        /\ \A k \in ErrorKinds \ {LastFailure} : exitcode # <<ExitCodeOf(k)>>

\* C6, amended: every error kind terminates the process with a non-zero code;
\* HashUnavailable and InputError exit with the same code, 10, and no other two
\* kinds share a code.
C6_ExitCodesDistinctButOne ==
    pc = "exited" =>
        /\ exitcode # <<0>>
        /\ LastFailure \in ErrorKinds
        /\ exitcode = <<ExitCodeOf(LastFailure)>>
        /\ \A k \in ErrorKinds \ {LastFailure} :
              exitcode = <<ExitCodeOf(k)>> =>
                  {k, LastFailure} = {"unavailable", "input-error"}
        /\ ExitCodeOf("unavailable") = 10 /\ ExitCodeOf("input-error") = 10

\* a torrent file met without bencoder ended the run with code 10
C6_Witness ==
    /\ pc = "exited"
    /\ LastFailure = "unavailable"
    /\ exitcode = <<10>>

\* a handle_input_torrent or parse_torrent_input call has been made
Called == cur.events # <<>>

AllHex(s) == \A i \in DOMAIN s : s[i] \in HexChars

AllDigits(s) == \A i \in DOMAIN s : s[i] \in Digits

\* n is the run of digits that follows some 'torrentid=' in s
IsTorrentIdOf(s, n) ==
    /\ n # <<>>
    /\ AllDigits(n)
    /\ \E i \in 1..Len(s) :
         LET from == i + Len(TORRENTID)
             to == from + Len(n) - 1
         IN  /\ to <= Len(s)
             /\ SubSeq(s, i, from - 1) = TORRENTID
             /\ SubSeq(s, from, to) = n
             /\ to < Len(s) => s[to + 1] \notin Digits

HasTorrentId(s) == \E i, j \in 1..Len(s) : i <= j /\ IsTorrentIdOf(s, SubSeq(s, i, j))

\* the part of C7 about strings that are neither a hash, an id nor a path
C7_UrlRule ==
    /\ (/\ ~(Len(cur.torrent) = 40 /\ AllHex(cur.torrent))
        /\ ~AllDigits(cur.torrent)
        /\ ~PathExists(cur.torrent)
        /\ HasTorrentId(cur.torrent))
       => cur.parsed.tag = "id" /\ IsTorrentIdOf(cur.torrent, cur.parsed.val)
    /\ cur.torrent = URL_A => cur.parsed = Parsed("id", <<"1","8","8","8","8","0","8">>)

\* C7, as stated: every 40-character hexadecimal string resolves to ByHash of
\* itself, every string of decimal digits to ById of itself, and a string that is
\* neither and no existing path but contains torrentid=<digits> to ById of those
\* digits.
C7_ResolverClassifies ==
    Called =>
        /\ (Len(cur.torrent) = 40 /\ AllHex(cur.torrent))
              => cur.parsed = Parsed("hash", cur.torrent)
        /\ (cur.torrent # <<>> /\ AllDigits(cur.torrent))
              => cur.parsed = Parsed("id", cur.torrent)
        /\ C7_UrlRule

\* C7, amended: every 40-character hexadecimal string, a string of 40 decimal
\* digits included, resolves to ByHash of itself; every non-empty string of
\* decimal digits that is not 40 characters long resolves to ById of itself; and
\* a string that is neither and no existing path but contains torrentid=<digits>
\* resolves to ById of those digits.
C7_ResolverFirstMatch ==
    Called =>
        /\ (Len(cur.torrent) = 40 /\ AllHex(cur.torrent))
              => cur.parsed = Parsed("hash", cur.torrent)
        /\ (cur.torrent # <<>> /\ AllDigits(cur.torrent) /\ Len(cur.torrent) # 40)
              => cur.parsed = Parsed("id", cur.torrent)
        /\ C7_UrlRule

\* a string of 40 decimal digits resolved to ByHash
C7_Witness ==
    /\ cur.torrent = D40
    /\ cur.parsed = Parsed("hash", D40)

Diagnostics == {"invalid", "nobencoder", "skipping", "error"}

\* the diagnostic of a failure is printed before the policy is asked about it
DiagnosticFirst ==
    \A i \in DOMAIN cur.events :
        cur.events[i] = "policy" =>
            \E j \in 1..(i - 1) :
                /\ cur.events[j] \in Diagnostics
                /\ \A k \in (j + 1)..(i - 1) : cur.events[k] \notin {"policy", "prompt"}

\* C8, as stated: for every failure that reaches the policy, its diagnostic is
\* printed before the decision is taken (in ask mode, before the prompt).
C8_DiagnosticBeforeDecision == DiagnosticFirst

\* C8, amended: for an invalid input and for a missing hash capability the
\* diagnostic is printed before the decision is taken; for every tracker error
\* the decision is taken first (in ask mode the operator is prompted first) and
\* the one diagnostic of the failure is printed after it.
C8_DiagnosticOrder ==
    /\ cur.error.ok => DiagnosticFirst
    /\ ~cur.error.ok =>
         /\ cur.events[2] = "policy"
         /\ cur.events[Len(cur.events)] \in {"skipping", "error"}
         /\ \A i \in 1..(Len(cur.events) - 1) : cur.events[i] \notin Diagnostics
    /\ (cur.failures # <<>> /\ cur.verdicts # <<>>) =>
         \E i \in DOMAIN cur.events : cur.events[i] \in Diagnostics

\* in ask mode the operator was prompted about a tracker error before anything
\* was printed about it
C8_Witness ==
    /\ args.ignore_invalid = "ask"
    /\ cur.failures = <<"request-json">>
    /\ cur.events = <<"handling", "policy", "prompt", "skipping">>

\* the tracker answered the call with a successful response of another category
NonMusic(call) ==
    /\ call.response.status_code = 200
    /\ call.response.status = "success"
    /\ call.response.categoryName # "Music"

\* C9: a lookup answered with a successful response whose category is not Music
\* fails with error kind Music, writes nothing to the sink and runs no hook.
C9_NonMusicYieldsNoRecord ==
    [][(requests' # requests /\ NonMusic(cur')) =>
            /\ cur'.failures = <<"music">>
            /\ cur'.error.code = "music"
            /\ sink' = sink
            /\ hooks' = hooks
            /\ \A i \in DOMAIN cur'.events : cur'.events[i] \notin {"write", "hook"}]_vars

\* with a hook configured a non-music torrent was skipped after a record had
\* been written for an earlier input
C9_Witness ==
    /\ NonMusic(cur)
    /\ args.post # <<>>
    /\ Len(sink) = 1
    /\ Len(requests) = 2
    /\ pc = "running"

\* the input names a directory and is neither a literal hash nor a literal id
DirectoryInput ==
    /\ Called
    /\ IsDir(cur.torrent)
    /\ ~(Len(cur.torrent) = 40 /\ AllHex(cur.torrent))
    /\ ~AllDigits(cur.torrent)

\* the latest call only expanded its input
OnlyExpanded ==
    /\ cur.parsed.tag = "walked"
    /\ cur.failures = <<>>
    /\ cur.events = <<"handling">>

\* C10, as stated: a directory, top-level or met during expansion, with
\* recursion enabled or disabled, only contributes further inputs: no
\* LookupKey, lookup, Outcome or failure decision of its own.
C10_DirectoryOnlyExpands == DirectoryInput => OnlyExpanded

\* C10, amended: a directory handled with walking enabled (a top-level input,
\* or an entry met during expansion when recursion is enabled) only contributes
\* further inputs.  A subdirectory met during expansion when recursion is
\* disabled is not expanded and is resolved by its name like a file: to ByHash
\* when its base name is a 40-character hexadecimal string, and, when its path
\* holds no torrentid=<digits> either, to Invalid, which reaches the failure
\* decision.
C10_DirectoryExpandsWhenWalked ==
    DirectoryInput =>
        /\ cur.walk = (args.recursive \/ \A i \in DOMAIN cur.torrent : cur.torrent[i] # "/")
        /\ cur.walk => OnlyExpanded
        /\ ~cur.walk =>
             LET name == Basename(cur.torrent)
             IN  /\ cur.parsed.tag # "walked"
                 /\ (Len(name) = 40 /\ AllHex(name)) => cur.parsed = Parsed("hash", name)
                 /\ (~(Len(name) = 40 /\ AllHex(name)) /\ ~HasTorrentId(cur.torrent))
                       => /\ cur.parsed.tag = "none"
                          /\ cur.failures = <<"invalid">>
                          /\ Len(cur.verdicts) = 1

\* without --recursive the subdirectory d/sub was reported as an invalid input
C10_Witness ==
    /\ ~args.recursive
    /\ cur.torrent = PathJoin(DIR_D, SUB)
    /\ cur.failures = <<"invalid">>

\* the number of times the latest call consulted handle_invalid
Consultations == Cardinality({i \in DOMAIN cur.events : cur.events[i] = "policy"})

\* C11: an input that fails reaches the stop/ask/continue decision exactly once,
\* a torrent file met without the decoding module included, and a stop verdict
\* on it exits with the code of the failure that triggered the decision.
C11_DecisionOnce ==
    (Called /\ cur.events[1] = "handling" /\ cur.failures # <<>>) =>
        /\ Consultations = 1
        /\ Len(cur.verdicts) = 1
        /\ Len(cur.failures) = 1
        /\ pc = "exited" => exitcode = <<ExitCodeOf(cur.failures[1])>>

====
